---- MODULE Spec2Model ----
(***************************************************************************)
(* mquery-cache (lib/index.js): a TTL cache in front of Query.exec.        *)
(*                                                                         *)
(* The module models one instance created by module.exports(Query,Promise) *)
(* with the default options: the private TTLCacheCollection `caches`, the  *)
(* CachedQuery objects the overridden exec allocates, the timers the store *)
(* arms with setTimeout, the Query objects with their `op` and their       *)
(* (possibly overridden) `exec`, and the promises handed to the callers.   *)
(*                                                                         *)
(* Three Query objects with the same cache key are modelled: a find cached  *)
(* with ttl 1, a findOne cached with the default ttl, and a                *)
(* findOneAndUpdate.  Each may be passed to cache() and executed in any     *)
(* order, at any time, and every query in flight may complete with an      *)
(* error, with null or with documents.                                     *)
(*                                                                         *)
(* Time is counted in milliseconds and advances one second at a time.  A   *)
(* setTimeout callback runs when its delay has elapsed: time does not      *)
(* advance past a timer that is due, while calls made at the very instant  *)
(* a timer is due may run before or after its callback.                    *)
(***************************************************************************)
EXTENDS Integers, Sequences, FiniteSets

----------------------------------------------------------------------------
(* Bounds of the model *)

\* number of calls of cache() and exec() in a behaviour
MaxCalls == 4
\* seconds of model time
MaxTime == 2

(* Program constants *)

\* opts.ttl, the default time-to-live in seconds
DefaultTTL == 10
\* the factor of `cache.ttl*1000` in the setTimeout call
MsPerSec == 1000

----------------------------------------------------------------------------
(* Values *)

\* JavaScript undefined and null
Undefined == "undefined"
Null == "null"

\* what a successful fetch can yield: null (findOne without a match) or documents
Results == {Null, "docsA", "docsB"}

\* `if(results)`, `this._data || null`: JavaScript truthiness of a result
Truthy(v) == v \notin {Undefined, Null}

\* absence of an entry or a timer in the store's maps (undefined)
None == 0


\* the smallest positive integer not in S: the identity of a new object is
\* any identity no live object has
FreshId(S) == CHOOSE n \in 1..(Cardinality(S) + 1) :
                n \notin S /\ \A m \in 1..(n - 1) : m \in S

Range(s) == {s[i] : i \in DOMAIN s}

----------------------------------------------------------------------------
(* Query operations and the cacheability test *)

LowerSeq == <<"a","b","c","d","e","f","g","h","i","j","k","l","m",
              "n","o","p","q","r","s","t","u","v","w","x","y","z">>
UpperSeq == <<"A","B","C","D","E","F","G","H","I","J","K","L","M",
              "N","O","P","Q","R","S","T","U","V","W","X","Y","Z">>

\* the i flag: letters compare case-insensitively
Lower(c) ==
  IF \E i \in 1..26 : UpperSeq[i] = c
    THEN LowerSeq[CHOOSE i \in 1..26 : UpperSeq[i] = c]
    ELSE c

\* [a-z] under the i flag
IsLetter(c) == \E i \in 1..26 : LowerSeq[i] = Lower(c)

\* the characters of the operation names used by the model
OpChars ==
  [ find             |-> <<"f","i","n","d">>,
    findOne          |-> <<"f","i","n","d","O","n","e">>,
    findOneAndUpdate |-> <<"f","i","n","d","O","n","e","A","n","d","U","p","d","a","t","e">>,
    count            |-> <<"c","o","u","n","t">> ]

Ops == DOMAIN OpChars

\* the literal lit matches s at position i, ignoring case
MatchAt(s, i, lit) ==
  /\ i + Len(lit) - 1 <= Len(s)
  /\ \A j \in 1..Len(lit) : Lower(s[i + j - 1]) = lit[j]

\* /^(find)(?![a-z]+(update))/ig.test(this.op) on a fresh RegExp object
Cacheable(o) ==
  LET s == OpChars[o] IN
  /\ MatchAt(s, 1, <<"f","i","n","d">>)
  /\ ~ \E n \in 1..Len(s) :
         /\ 4 + n <= Len(s)
         /\ \A j \in 5..(4 + n) : IsLetter(s[j])
         /\ MatchAt(s, 5 + n, <<"u","p","d","a","t","e">>)

\* the operations that pass the test
CacheableOps == {o \in Ops : Cacheable(o)}

----------------------------------------------------------------------------
(* The Query objects of the model: hashCacheKey(query) and the initial op *)

QIds == {1, 2, 3}

\* keyhasher: the key depends on collection, conditions, fields and options,
\* not on the operation; the three queries have the same conditions
KeyOf(q) == "k1"

Keys == {KeyOf(q) : q \in QIds}

\* query.op as set by the query builder before cache() or exec() is called
InitOp(q) == CASE q = 1 -> "find" [] q = 2 -> "findOne" [] q = 3 -> "findOneAndUpdate"

\* the ttl argument the caller passes to cache(ttl) on query q; 0 stands for
\* an omitted (falsy) argument
TTLArgs(q) == IF q = 2 THEN {0} ELSE {1}

----------------------------------------------------------------------------
(* State *)

VARIABLES
  now,           \* the clock, in ms
  op,            \* op[q]: query.op
  exec,          \* exec[q]: the ttl closures of the overriding execs installed
                 \* by cache(), innermost first; <<>> is the original exec
  heap,          \* the live CachedQuery objects, by identity
  values,        \* caches.values: key -> identity of a CachedQuery, or None
  ttlIntervals,  \* caches._ttlIntervals: key -> timer id, or None
  timers,        \* the armed timers of the runtime: [id, key, due]
  promises,      \* the pending promises, by identity
  ncalls,        \* the number of cache() and exec() calls made so far
  last,          \* history: what the step that led to this state did
  pops,          \* history: the insertions into the store in order, each
                 \* [key, at, ttl, val, replaced]: val, the data of the entry
                 \* inserted; replaced, the key had an entry
  retry,         \* history: the keys whose fetch failed with no fetch of the
                 \* key succeeding since that fetch began, and not requested since
  declined       \* history: the queries on which a cache() call failed the op test

vars == <<now, op, exec, heap, values, ttlIntervals, timers, promises, ncalls,
          last, pops, retry, declined>>

\* the part of the state the handlers of lib/index.js read and write; ret is
\* the promise a call returns, settled the promises settled during the step
World ==
  [ op |-> op, heap |-> heap, values |-> values, ttlIntervals |-> ttlIntervals,
    timers |-> timers, promises |-> promises, ret |-> None, settled |-> {},
    added |-> <<>> ]

\* the CachedQuery objects still referenced: by the store or by the callback
\* of a pending promise
Live(w) ==
  {c \in DOMAIN w.heap :
     \/ \E k \in Keys : w.values[k] = c
     \/ \E p \in DOMAIN w.promises :
          w.promises[p].pending /\ c \in Range(w.promises[p].cbs)}

\* the state after a handler has run: settled promises and unreferenced
\* objects are garbage
Commit(w) ==
  /\ op' = w.op
  /\ heap' = [c \in Live(w) |-> w.heap[c]]
  /\ values' = w.values
  /\ ttlIntervals' = w.ttlIntervals
  /\ timers' = w.timers
  /\ promises' = [p \in {x \in DOMAIN w.promises : w.promises[x].pending} |->
                    [w.promises[p] EXCEPT
                       !.during = {f \in @ : f \in DOMAIN w.promises
                                             /\ w.promises[f].pending}]]
  /\ pops' = pops \o w.added

----------------------------------------------------------------------------
(* CachedQuery *)

\* new CachedQuery(key, this, null, ttl); listeners are the promises waiting
\* for its 'refresh' event
CachedQuery(key, ttl) ==
  [ key |-> key, ttl |-> ttl, data |-> Null, refreshing |-> FALSE,
    listeners |-> <<>> ]

\* the `data` getter: this._data || null
GetData(e) == IF Truthy(e.data) THEN e.data ELSE Null

----------------------------------------------------------------------------
(* TTLCacheCollection *)

\* TTLCacheCollection.prototype.get
Get(w, key) == w.values[key]

\* remove without its clearTimeout call
RemoveNoClear(w, key, silent) ==
  IF w.ttlIntervals[key] # None
    THEN [w EXCEPT !.ttlIntervals[key] = None, !.values[key] = None]
    ELSE w

\* TTLCacheCollection.prototype.remove (no listener is ever attached to the
\* private collection, so the 'remove' event has no effect)
Remove(w, key, silent) ==
  IF w.ttlIntervals[key] # None
    THEN [w EXCEPT !.timers = {t \in @ : t.id # w.ttlIntervals[key]},
                   !.ttlIntervals[key] = None,
                   !.values[key] = None]
    ELSE w

\* history: the record of the insertion of object c by add
Added(w, c) ==
  [ key |-> w.heap[c].key, at |-> now, ttl |-> w.heap[c].ttl,
    val |-> w.heap[c].data, replaced |-> w.values[w.heap[c].key] # None ]

\* add without its call of this.remove
AddNoRemove(w, c) ==
  LET key == w.heap[c].key
      tid == FreshId({t.id : t \in w.timers}
                     \cup {w.ttlIntervals[k] : k \in Keys})
  IN [w EXCEPT !.values[key] = c,
               !.ttlIntervals[key] = tid,
               !.timers = @ \cup {[id |-> tid, key |-> key,
                                   due |-> now + w.heap[c].ttl * MsPerSec]},
               !.added = Append(@, Added(w, c))]

\* TTLCacheCollection.prototype.add
Add(w, c) ==
  LET key == w.heap[c].key
      w1 == Remove(w, key, TRUE)
      tid == FreshId({t.id : t \in w1.timers}
                     \cup {w1.ttlIntervals[k] : k \in Keys})
  IN [w1 EXCEPT !.values[key] = c,
                !.ttlIntervals[key] = tid,
                !.timers = @ \cup {[id |-> tid, key |-> key,
                                    due |-> now + w1.heap[c].ttl * MsPerSec]},
                !.added = Append(@, Added(w, c))]

\* the setTimeout callback without its `delete _this.values[cache.key]`
ExpireKeepsValue(w, t) ==
  [w EXCEPT !.ttlIntervals[t.key] = None,
            !.timers = @ \ {t}]

\* the setTimeout callback armed by add; the runtime drops the fired timer
Expire(w, t) ==
  [w EXCEPT !.values[t.key] = None,
            !.ttlIntervals[t.key] = None,
            !.timers = @ \ {t}]

----------------------------------------------------------------------------
(* Promises and the callbacks of the overridden exec *)

\* the cache-path fetches in flight for key: the pending promises of the
\* original exec on which an overriding exec has registered its callback
Outstanding(ps, key) ==
  {p \in DOMAIN ps : /\ ps[p].pending /\ ps[p].fetch
                     /\ ps[p].key = key /\ ps[p].cbs # <<>>}

\* new Promise(); fetch marks the promise of the original exec, whose
\* resolution is the completion of the underlying query for key.  History:
\* during, the fetches outstanding for the key when the promise was made;
\* clean, no fetch of the key has succeeded since
NewPromise(w, isFetch, key) ==
  LET p == FreshId(DOMAIN w.promises)
      rec == [ pending |-> TRUE, err |-> FALSE, val |-> Undefined,
               cbs |-> <<>>, fetch |-> isFetch, key |-> key,
               during |-> Outstanding(w.promises, key), clean |-> TRUE ]
  IN [w EXCEPT !.promises = [x \in DOMAIN w.promises \cup {p} |->
                               IF x = p THEN rec ELSE w.promises[x]],
               !.ret = p]

RECURSIVE Resolve(_, _, _, _)
RECURSIVE RunCallbacks(_, _, _, _, _)
RECURSIVE Notify(_, _, _, _)

\* the `data` setter without its assignment to _data
SetDataKeepOld(w, c, val) ==
  LET ls == w.heap[c].listeners
      w1 == [w EXCEPT !.heap[c].listeners = <<>>]
  IN Notify(w1, ls, 1, val)

\* the `data` setter: stores the value and emits 'refresh' to the listeners
\* registered with once(), in registration order
SetData(w, c, val) ==
  LET ls == w.heap[c].listeners
      w1 == [w EXCEPT !.heap[c].data = val, !.heap[c].listeners = <<>>]
  IN Notify(w1, ls, 1, val)

\* the listener of the join branch, for each waiting promise in turn
Notify(w, ls, i, val) ==
  IF i > Len(ls) THEN w
  ELSE Notify(Resolve(w, ls[i], FALSE, val), ls, i + 1, val)

\* the callback without its `if(results)` test
OnResultsAlways(w, c, err, results) ==
  Add(SetData([w EXCEPT !.heap[c].refreshing = FALSE], c, results), c)

\* the callback with caches.add(cache) moved out of the `if(results)` block
OnResultsAddOutside(w, c, err, results) ==
  IF Truthy(results)
    THEN Add(SetData([w EXCEPT !.heap[c].refreshing = FALSE], c, results), c)
    ELSE Add(w, c)

\* the callback starting the underlying query again when it has no results
OnResultsRetry(w, c, err, results) ==
  IF Truthy(results)
    THEN Add(SetData([w EXCEPT !.heap[c].refreshing = FALSE], c, results), c)
    ELSE [NewPromise(w, TRUE, w.heap[c].key) EXCEPT !.ret = w.ret]

\* the callback without its `cache.refreshing = false`
OnResultsFlagKept(w, c, err, results) ==
  IF Truthy(results)
    THEN Add(SetData(w, c, results), c)
    ELSE w

\* the callback the miss branch registers with promise.addBack
OnResults(w, c, err, results) ==
  IF Truthy(results)
    THEN Add(SetData([w EXCEPT !.heap[c].refreshing = FALSE], c, results), c)
    ELSE w

\* the callbacks of a settled promise, in registration order
RunCallbacks(w, cbs, i, err, val) ==
  IF i > Len(cbs) THEN w
  ELSE RunCallbacks(OnResults(w, cbs[i], err, val), cbs, i + 1, err, val)

\* promise.resolve(err, val): settles a pending promise once and runs the
\* callbacks registered on it
Resolve(w, p, err, val) ==
  IF ~ w.promises[p].pending THEN w
  ELSE RunCallbacks([w EXCEPT !.promises[p].pending = FALSE,
                              !.promises[p].err = err,
                              !.promises[p].val = val,
                              !.settled = @ \cup {[id |-> p, err |-> err,
                                                   val |-> val]}],
                    w.promises[p].cbs, 1, err, val)

\* promise.addBack(function(err, results){...}) of the miss branch
AddBack(w, p, c) ==
  IF w.promises[p].pending
    THEN [w EXCEPT !.promises[p].cbs = Append(@, c)]
    ELSE OnResults(w, c, w.promises[p].err, w.promises[p].val)

----------------------------------------------------------------------------
(* exec *)

\* the op argument of exec(op, callback): a string, or no string
NoArg == "none"
OpArgs == {NoArg, "count"}

\* the hit test with the flag compared the wrong way round
IsHitInverted(w, cache) == cache # None /\ w.heap[cache].refreshing = TRUE

\* the test of the hit branch: cache && cache.refreshing === false
IsHit(w, cache) == cache # None /\ w.heap[cache].refreshing = FALSE

\* ttl || options.ttl
EffectiveTTL(ttl) == IF ttl # 0 THEN ttl ELSE DefaultTTL

RECURSIVE Exec(_, _, _, _)

\* the overriding exec with a hit branch that adds the entry to the store
\* again, restarting its timer
CachedExecTouch(w, q, lvl, opArg) ==
  LET key == KeyOf(q)
      cache == Get(w, key)
      w0 == IF opArg \in Ops THEN [w EXCEPT !.op[q] = opArg] ELSE w
  IN IF IsHit(w0, cache)
       THEN LET w1 == NewPromise(Add(w0, cache), FALSE, key)
            IN Resolve(w1, w1.ret, FALSE, GetData(w0.heap[cache]))
       ELSE
         LET c == IF cache # None THEN cache ELSE FreshId(DOMAIN w0.heap)
             w1 == IF cache # None THEN w0
                   ELSE [w0 EXCEPT !.heap =
                           [x \in DOMAIN w0.heap \cup {c} |->
                              IF x = c
                                THEN CachedQuery(key, EffectiveTTL(exec[q][lvl]))
                                ELSE w0.heap[x]]]
         IN IF w1.heap[c].refreshing
              THEN LET w2 == NewPromise(w1, FALSE, key)
                   IN [w2 EXCEPT !.heap[c].listeners = Append(@, w2.ret)]
              ELSE LET w2 == [w1 EXCEPT !.heap[c].refreshing = TRUE]
                       w3 == Exec(w2, q, lvl - 1, opArg)
                   IN AddBack(w3, w3.ret, c)

\* the exec installed by cache(ttl) at level lvl of the chain of query q
CachedExec(w, q, lvl, opArg) ==
  LET key == KeyOf(q)
      cache == Get(w, key)
      w0 == IF opArg \in Ops THEN [w EXCEPT !.op[q] = opArg] ELSE w
  IN IF IsHit(w0, cache)
       THEN LET w1 == NewPromise(w0, FALSE, key)
            IN Resolve(w1, w1.ret, FALSE, GetData(w0.heap[cache]))
       ELSE
         LET c == IF cache # None THEN cache ELSE FreshId(DOMAIN w0.heap)
             w1 == IF cache # None THEN w0
                   ELSE [w0 EXCEPT !.heap =
                           [x \in DOMAIN w0.heap \cup {c} |->
                              IF x = c
                                THEN CachedQuery(key, EffectiveTTL(exec[q][lvl]))
                                ELSE w0.heap[x]]]
         IN IF w1.heap[c].refreshing
              THEN LET w2 == NewPromise(w1, FALSE, key)
                   IN [w2 EXCEPT !.heap[c].listeners = Append(@, w2.ret)]
              ELSE LET w2 == [w1 EXCEPT !.heap[c].refreshing = TRUE]
                       w3 == Exec(w2, q, lvl - 1, opArg)
                   IN AddBack(w3, w3.ret, c)

\* query.exec(op, callback): the original exec (level 0) starts the underlying
\* query and returns its promise; above it, the execs installed by cache()
Exec(w, q, lvl, opArg) ==
  IF lvl = 0 THEN NewPromise(w, TRUE, KeyOf(q))
  ELSE CachedExec(w, q, lvl, opArg)

----------------------------------------------------------------------------
(* Actions *)

\* `last` describes the step that led to the state.  For a call of exec
\* (type "exec"): the query and its key, whether its exec was an overriding
\* one, whether the original exec was invoked, the promise returned with its
\* outcome if it is settled, the promises settled by the call, the fetches
\* that were outstanding for the key, and whether the key was in retry.  For
\* the completion of a query (type "done"): its key, whether it was started
\* by an overriding exec, its promise and outcome, the promises it settled,
\* and the refreshing flags its callbacks left on their CachedQuery objects.
\* Idle is its value after any other step
Idle ==
  [ type |-> "idle", q |-> 0, key |-> "", wrapped |-> FALSE, fetched |-> FALSE,
    promise |-> None, settled |-> {}, err |-> FALSE, val |-> Undefined,
    during |-> {}, retried |-> FALSE, flags |-> {} ]

Init ==
  /\ now = 0
  /\ op = [q \in QIds |-> InitOp(q)]
  /\ exec = [q \in QIds |-> <<>>]
  /\ heap = <<>>
  /\ values = [k \in Keys |-> None]
  /\ ttlIntervals = [k \in Keys |-> None]
  /\ timers = {}
  /\ promises = <<>>
  /\ ncalls = 0
  /\ last = Idle
  /\ pops = <<>>
  /\ retry = {}
  /\ declined = {}

\* Query.prototype.cache(ttl)
Cache(q, ttl) ==
  /\ ncalls < MaxCalls
  /\ IF op[q] \in CacheableOps
       THEN /\ exec' = [exec EXCEPT ![q] = Append(@, ttl)]
            /\ UNCHANGED declined
       ELSE /\ declined' = declined \cup {q}
            /\ UNCHANGED exec
  /\ ncalls' = ncalls + 1
  /\ last' = Idle
  /\ UNCHANGED <<now, op, heap, values, ttlIntervals, timers, promises,
                 pops, retry>>

\* a caller runs query.exec(op, callback)
Request(q, opArg) ==
  /\ ncalls < MaxCalls
  /\ exec[q] = <<>> => opArg = NoArg
  /\ LET w == Exec(World, q, Len(exec[q]), opArg)
         r == w.promises[w.ret]
     IN /\ Commit(w)
        /\ last' = [ type |-> "exec", q |-> q, key |-> KeyOf(q),
                     wrapped |-> exec[q] # <<>>,
                     fetched |-> \E p \in DOMAIN w.promises \ DOMAIN promises :
                                   w.promises[p].fetch,
                     promise |-> w.ret, settled |-> w.settled,
                     err |-> r.err, val |-> r.val,
                     during |-> Outstanding(promises, KeyOf(q)),
                     retried |-> KeyOf(q) \in retry, flags |-> {} ]
        /\ retry' = IF exec[q] # <<>> THEN retry \ {KeyOf(q)} ELSE retry
  /\ ncalls' = ncalls + 1
  /\ UNCHANGED <<now, exec, declined>>

\* the underlying query of promise p completes: with an error, or with results
FetchDone(p, err, results) ==
  /\ p \in DOMAIN promises
  /\ promises[p].fetch /\ promises[p].pending
  /\ LET w == Resolve(World, p, err, results)
         key == promises[p].key
         cached == promises[p].cbs # <<>>
         \* history: a success of the key dirties the fetches in flight for it
         w1 == IF cached /\ ~ err
                 THEN [w EXCEPT !.promises =
                         [x \in DOMAIN w.promises |->
                            IF w.promises[x].key = key
                              THEN [w.promises[x] EXCEPT !.clean = FALSE]
                              ELSE w.promises[x]]]
                 ELSE w
     IN /\ Commit(w1)
        /\ last' = [ type |-> "done", q |-> 0, key |-> key, wrapped |-> cached,
                     fetched |-> FALSE, promise |-> p, settled |-> w.settled,
                     err |-> err, val |-> results,
                     during |-> {}, retried |-> FALSE,
                     flags |-> {w.heap[c].refreshing :
                                  c \in Range(promises[p].cbs)} ]
        /\ retry' = IF ~ cached THEN retry
                    ELSE IF ~ err THEN retry \ {key}
                    ELSE IF promises[p].clean THEN retry \cup {key}
                    ELSE retry
  /\ UNCHANGED <<now, exec, ncalls, declined>>

\* a due timer fires
TimerFire(t) ==
  /\ t \in timers
  /\ t.due <= now
  /\ Commit(Expire(World, t))
  /\ last' = Idle
  /\ UNCHANGED <<now, exec, ncalls, retry, declined>>

\* one second passes
Tick ==
  /\ now < MaxTime * MsPerSec
  /\ \A t \in timers : t.due > now
  /\ now' = now + MsPerSec
  /\ last' = Idle
  /\ UNCHANGED <<op, exec, heap, values, ttlIntervals, timers, promises, ncalls,
                 pops, retry, declined>>

Next ==
  \/ \E q \in QIds : \E ttl \in TTLArgs(q) : Cache(q, ttl)
  \/ \E q \in QIds, opArg \in OpArgs : Request(q, opArg)
  \/ \E p \in DOMAIN promises : FetchDone(p, TRUE, Undefined)
  \/ \E p \in DOMAIN promises, r \in Results : FetchDone(p, FALSE, r)
  \/ \E t \in timers : TimerFire(t)
  \/ Tick

Spec == Init /\ [][Next]_vars

----------------------------------------------------------------------------
(* Properties *)

\* the calls of an overriding exec
IsRequest(l) == l.type = "exec" /\ l.wrapped

\* the call returned a promise that is already settled
Immediate(l) == \E s \in l.settled : s.id = l.promise

\* C1: single-flight.  In no reachable state are two fetches started by the
\* overriding exec in flight for the same key.
SingleFlight ==
  \A k \in Keys : Cardinality(Outstanding(promises, k)) <= 1

\* C2: a request made for a key while a fetch of the key is outstanding starts
\* no new fetch, and when that fetch completes the promise of the request is
\* settled with the outcome of the fetch.
JoinsOutstandingFetch ==
  [][ /\ (IsRequest(last') /\ last'.during # {}) => ~ last'.fetched
      /\ \A p \in DOMAIN promises :
           (last'.type = "done" /\ last'.promise \in promises[p].during)
             => [id |-> p, err |-> last'.err, val |-> last'.val]
                  \in last'.settled ]_vars

\* C3: a request that finds an entry of its key in the store with the
\* refreshing flag false is settled at once with the entry's value and does
\* not invoke the original exec.
HitPath ==
  [][ (/\ IsRequest(last')
       /\ values[last'.key] # None
       /\ heap[values[last'.key]].refreshing = FALSE)
      => /\ ~ last'.fetched
         /\ Immediate(last')
         /\ last'.err = FALSE
         /\ last'.val = heap[values[last'.key]].data
         /\ promises' = promises ]_vars

\* a request was served from an entry of the store
HitServed ==
  /\ IsRequest(last) /\ Immediate(last) /\ ~ last.fetched
  /\ last.val \in {"docsA", "docsB"}

\* the insertions into the store under key k, in order
PopsOf(k) == SelectSeq(pops, LAMBDA x : x.key = k)

\* the latest insertion under key k
LastPop(k) == PopsOf(k)[Len(PopsOf(k))]

\* C4: TTL expiry.  At every instant less than T seconds after an entry was
\* inserted with ttl T, a request for its key takes the hit path (the test of
\* the hit branch holds of the store); and at every instant more than T
\* seconds after the latest insertion under a key, a request for the key
\* finds it absent, so that it takes the miss branch.
TTLExpiry ==
  /\ \A i \in DOMAIN pops :
        now < pops[i].at + pops[i].ttl * MsPerSec
          => IsHit(World, Get(World, pops[i].key))
  /\ \A k \in Keys :
        (PopsOf(k) # <<>> /\ now > LastPop(k).at + LastPop(k).ttl * MsPerSec)
          => Get(World, k) = None

\* C5: no negative caching.  The completion of a fetch with an error leaves
\* the store as it was, and the next request for the key, no fetch of the key
\* having succeeded since the failed fetch began, invokes the original exec
\* and is not settled with the failure.
NoNegativeCaching ==
  [][ /\ (last'.type = "done" /\ last'.err)
           => /\ values' = values
              /\ ttlIntervals' = ttlIntervals
              /\ timers' = timers
      /\ (IsRequest(last') /\ last'.retried)
           => (last'.fetched /\ ~ Immediate(last')) ]_vars

\* a request for a key whose fetch had failed invoked the original exec again
RetriedAfterFailure == IsRequest(last) /\ last.retried /\ last.fetched

\* C6: every request completes once its fetch settles.  A promise handed to
\* a caller is pending only while the fetch that settles it is in flight: it
\* is the promise of that fetch, or it waits for the refresh of an entry that
\* a fetch in flight will store; and the completion of a fetch, with results
\* or with an error, settles its promise with that outcome.
EveryRequestCompletes ==
  /\ \A p \in DOMAIN promises :
        \/ promises[p].fetch
        \/ \E c \in DOMAIN heap :
             /\ p \in Range(heap[c].listeners)
             /\ \E f \in DOMAIN promises :
                  promises[f].fetch /\ c \in Range(promises[f].cbs)
  /\ (last.type = "exec" /\ ~ Immediate(last)) => last.promise \in DOMAIN promises
  /\ last.type = "done" =>
        /\ [id |-> last.promise, err |-> last.err, val |-> last.val] \in last.settled
        /\ last.promise \notin DOMAIN promises

\* a fetch started by an overriding exec failed and its request was settled
\* with the failure
FailurePropagated ==
  /\ last.type = "done" /\ last.wrapped /\ last.err
  /\ [id |-> last.promise, err |-> TRUE, val |-> Undefined] \in last.settled

\* C7: replacement cancels the prior timer.  The entry of a key is covered
\* by the timer registered for the key, which is due ttl seconds after the
\* latest insertion under the key, and an entry is removed from the store
\* no earlier than ttl seconds after that latest insertion.
ReplacementCancelsTimer ==
  [][ \A k \in Keys :
        /\ values'[k] # None =>
             /\ LastPop(k)'.ttl = heap'[values'[k]].ttl
             /\ \E t \in timers' :
                  /\ t.id = ttlIntervals'[k] /\ t.key = k
                  /\ t.due = LastPop(k)'.at + LastPop(k)'.ttl * MsPerSec
        /\ (values[k] # None /\ values'[k] = None) =>
             now >= LastPop(k).at + LastPop(k).ttl * MsPerSec ]_vars

\* an entry that replaced another one under its key has been evicted, after
\* an insertion made later than the first one
ReplacementEvicted ==
  /\ Len(pops) >= 2
  /\ pops[Len(pops)].replaced
  /\ pops[Len(pops)].at > pops[Len(pops) - 1].at
  /\ values[pops[Len(pops)].key] = None

\* C8: bypass.  Once cache() has been called on a query while its operation
\* failed the cacheability test, every execution of the query runs the
\* original exec: it invokes the fetch and does not go through the store.
BypassWhenNotCacheable ==
  (last.type = "exec" /\ last.q \in declined)
    => (~ last.wrapped /\ last.fetched /\ ~ Immediate(last))

\* C9: each key has at most one armed timer.
AtMostOneTimerPerKey ==
  \A k \in Keys : Cardinality({t \in timers : t.key = k}) <= 1

\* an entry has been inserted under a key that had an entry, and a timer is armed
TimerRearmed ==
  /\ pops # <<>>
  /\ pops[Len(pops)].replaced
  /\ \E t \in timers : t.key = pops[Len(pops)].key

\* C10: stable identity.  While a key has an entry, Get(key) keeps returning
\* the same object: no step puts another object in its place; the entry only
\* leaves the store when its timer fires.
StableIdentity ==
  [][ \A k \in Keys :
        (values[k] # None /\ values'[k] # None) => values'[k] = values[k] ]_vars

\* the states of a CachedQuery object: its fetch is in flight; it has a value;
\* the store holds it
Fetching(c) ==
  /\ heap[c].refreshing
  /\ \E p \in DOMAIN promises :
       /\ promises[p].fetch /\ promises[p].pending
       /\ c \in Range(promises[p].cbs)

Populated(c) == Truthy(heap[c].data)

InStore(c) == \E k \in Keys : values[k] = c

\* C11: store membership.  A CachedQuery object is in the store exactly when
\* it is fetching or populated, and the store holds no object that has neither
\* a value nor a fetch in flight.
StoreMembership ==
  /\ \A c \in DOMAIN heap : InStore(c) <=> (Fetching(c) \/ Populated(c))
  /\ \A k \in Keys : values[k] # None =>
       (Fetching(values[k]) \/ Populated(values[k]))

\* C12: every fetch that completes without error, whatever its results, leaves
\* under its key an entry that holds these results, with refreshing false and
\* a timer armed for ttl seconds from the completion.
SuccessPopulates ==
  (last.type = "done" /\ last.wrapped /\ ~ last.err) =>
    LET c == Get(World, last.key)
    IN /\ c # None
       /\ heap[c].data = last.val
       /\ heap[c].refreshing = FALSE
       /\ \E t \in timers :
            /\ t.id = ttlIntervals[last.key] /\ t.key = last.key
            /\ t.due = now + heap[c].ttl * MsPerSec

\* C13: after a fetch has settled, with results or with an error, the
\* refreshing flag of each CachedQuery object of its callbacks is false; a
\* failed fetch inserts nothing into the store.
FlagClearedOnSettle ==
  [][ (last'.type = "done" /\ last'.wrapped) =>
        /\ last'.flags = {FALSE}
        /\ last'.err => /\ values' = values
                        /\ ttlIntervals' = ttlIntervals
                        /\ timers' = timers ]_vars

\* C14: no request observes a half-updated entry.  Every value returned at
\* once by an overriding exec is the results of the latest insertion made
\* under its key: it is not an absent value, and the entry it comes from is
\* in the store with refreshing false and holds that same value.
NoHalfUpdatedHit ==
  (IsRequest(last) /\ Immediate(last)) =>
    /\ last.err = FALSE
    /\ Truthy(last.val)
    /\ PopsOf(last.key) # <<>>
    /\ last.val = LastPop(last.key).val
    /\ values[last.key] # None
    /\ heap[values[last.key]].refreshing = FALSE
    /\ heap[values[last.key]].data = last.val

\* a request was served the results of a second insertion under its key,
\* which differ from the results of the first one
HitAfterRepopulation ==
  /\ IsRequest(last) /\ Immediate(last)
  /\ Len(PopsOf(last.key)) >= 2
  /\ PopsOf(last.key)[1].val # LastPop(last.key).val
  /\ last.val = LastPop(last.key).val

\* the promises of the original exec made by the step
NewFetches ==
  {p \in DOMAIN promises' : promises'[p].fetch /\ p \notin DOMAIN promises}

\* C15: no automatic retry.  A call of exec invokes the original exec at most
\* once and no other step invokes it: the completion of a fetch, failed or
\* not, the firing of a timer and the passing of time start no fetch.  Hence
\* the fetches invoked never outnumber the requests made.
NoAutomaticRetry ==
  [][ Cardinality(NewFetches) <= (IF last'.type = "exec" THEN 1 ELSE 0) ]_vars

\* a fetch started by an overriding exec has failed and no fetch is in flight
\* for its key
FailedNotRetried ==
  /\ last.type = "done" /\ last.wrapped /\ last.err
  /\ Outstanding(promises, last.key) = {}
  /\ values[last.key] = None

\* C16: reads have no side effects.  A request served from the store leaves
\* the entries of the store, their objects and every timer as they were: the
\* hit neither restarts nor extends the TTL of the entry.
ReadsHaveNoSideEffects ==
  [][ (IsRequest(last') /\ Immediate(last')) =>
        /\ values' = values
        /\ ttlIntervals' = ttlIntervals
        /\ timers' = timers
        /\ heap' = heap ]_vars

\* a request was served from an entry inserted earlier than the current
\* instant, whose timer is still due at insertion time plus ttl
LateHitServed ==
  /\ IsRequest(last) /\ Immediate(last)
  /\ PopsOf(last.key) # <<>>
  /\ now > LastPop(last.key).at
  /\ \E t \in timers :
       /\ t.key = last.key
       /\ t.due = LastPop(last.key).at + LastPop(last.key).ttl * MsPerSec

\* C17: the keys that have an entry in the store are the keys that have an
\* armed timer, and they are the keys whose timer handle is recorded.
EntriesMatchTimers ==
  /\ {k \in Keys : values[k] # None} = {t.key : t \in timers}
  /\ \A k \in Keys : values[k] # None <=> ttlIntervals[k] # None
  /\ \A t \in timers : ttlIntervals[t.key] = t.id

\* every entry inserted so far has been evicted by its timer: the store is
\* empty again and no timer is armed
AllEvicted ==
  /\ pops # <<>>
  /\ \A k \in Keys : values[k] = None
  /\ timers = {}

\* C18: every entry of the store has refreshing false and a value; so the test
\* `cache.refreshing` of the miss branch never finds a stored entry with the
\* flag true: no promise is ever created by the join branch and no listener
\* is ever registered on a CachedQuery object.
StoredEntriesSettled ==
  /\ \A k \in Keys : values[k] # None =>
       /\ heap[values[k]].refreshing = FALSE
       /\ Populated(values[k])
  /\ \A p \in DOMAIN promises : promises[p].fetch
  /\ \A c \in DOMAIN heap : heap[c].listeners = <<>>

\* a request arrives while the store holds an entry of its key and a fetch
\* for that key is in flight
RequestDuringRefetch ==
  /\ IsRequest(last)
  /\ values[last.key] # None
  /\ last.during # {}

\* C19: when a fetch completes without error for a key under which an earlier
\* completion has inserted an entry, the store holds after the completion the
\* CachedQuery object of the fetch that has just completed, with its results
\* and its ttl, and a single timer due ttl seconds after this completion; the
\* object it replaces is referenced by nothing any more.
LastCompletionWins ==
  [][ (/\ last'.type = "done" /\ last'.wrapped /\ ~ last'.err
       /\ PopsOf(last'.key) # <<>>)
      => LET k == last'.key
             cbs == promises[last'.promise].cbs
             own == cbs[Len(cbs)]
         IN /\ values'[k] = own
            /\ heap'[own].data = last'.val
            /\ heap'[own].ttl = heap[own].ttl
            /\ \A t \in timers' :
                 t.key = k => /\ t.id = ttlIntervals'[k]
                              /\ t.due = now + heap[own].ttl * MsPerSec
            /\ \E t \in timers' : t.key = k
            /\ values[k] # None =>
                 (values[k] # own /\ values[k] \notin DOMAIN heap') ]_vars

====
